---- MODULE Spec2Model ----
(***************************************************************************)
(* Model of src/jenkins_mcp.py: the JenkinsManager API client, the two     *)
(* dispatcher entry points (read_resource, call_tool) and main.            *)
(*                                                                         *)
(* Strings that the code inspects character by character (job names, the   *)
(* get_jobs filter, the console log) are sequences of one-character        *)
(* strings.  Rendered messages are sequences of fragments; the first       *)
(* fragment is what the text begins with, and `"Timeout" in msg` is the    *)
(* presence of the fragment "Timeout".                                     *)
(***************************************************************************)
EXTENDS Integers, Sequences, FiniteSets, TLC

\* ------------------------------------------------------------------ bounds
MaxJobs == 2
MaxFilterLen == 2
MaxText == 4
MaxLines == 3

\* ------------------------------------------------------- program constants
DefaultLines == 50
DefaultLimit == 10

\* ----------------------------------------------------------------- helpers
SeqsUpTo(S, n) == UNION {[1..k -> S] : k \in 0..n}

Min(a, b) == IF a < b THEN a ELSE b

Alphabet == {"a", "A", "b"}
TextAlphabet == {"x", "y", "\n"}

\* str.lower() on one character and on a string
LowerChar(c) == IF c = "A" THEN "a" ELSE c
Lower(s) == [i \in 1..Len(s) |-> LowerChar(s[i])]

\* Python's `needle in hay` for strings
IsSubstring(needle, hay) ==
    \E off \in 0..Len(hay) :
        /\ off + Len(needle) <= Len(hay)
        /\ \A j \in 1..Len(needle) : hay[off + j] = needle[j]

\* ------------------------------------------------------------ domain model
\* lastBuild as delivered in the JSON: null, {} or a record with a result
NoBuild == [present |-> FALSE, fields |-> {}, result |-> "null"]
LastBuilds == {NoBuild,
               [present |-> TRUE, fields |-> {}, result |-> "null"],
               [present |-> TRUE, fields |-> {"number", "result"}, result |-> "FAILURE"],
               [present |-> TRUE, fields |-> {"number", "result"}, result |-> "SUCCESS"]}
Colors == {"red", "red_anime", "blue"}
\* job names: empty (the default of a missing field), one letter in either
\* case, and two letters with the second or the first letter in either case
Names == {<<>>, <<"a">>, <<"A">>, <<"b">>, <<"b", "a">>, <<"b", "A">>, <<"a", "b">>, <<"b", "b">>}

JenkinsJob(n, c, lb) == [name |-> n, color |-> c, last_build |-> lb]

\* the jobs the server may hold
JobUniverse == {JenkinsJob(n, "blue", NoBuild) : n \in Names}
               \cup {JenkinsJob(<<"a">>, c, lb) : c \in Colors, lb \in LastBuilds}
JobLists == SeqsUpTo(JobUniverse, MaxJobs)
ConsoleTexts == SeqsUpTo(TextAlphabet, MaxText)

\* truthiness of job.last_build (None and {} are falsy)
Truthy(lb) == lb.present /\ lb.fields # {}
\* job.last_build.get("result")
LastResult(lb) == IF "result" \in lb.fields THEN lb.result ELSE "null"

\* --------------------------------------------------------------- messages
Marker == "X "                      \* the failure marker that opens call_tool's error texts
TimeoutWord == "Timeout"
VpnQuestion == " de conexion - Estas conectado a la VPN?"
VpnTip == "\nTip: Estas conectado a la VPN?"

ConnectTimeoutMsg == <<TimeoutWord, VpnQuestion>>
AuthMsg == <<"Error de autenticacion - Verifica usuario y token">>
PermissionMsg == <<"Sin permisos - Verifica los permisos del usuario">>
HttpMsg(status) == <<"Error HTTP ", ToString(status)>>

\* str() of the errors the HTTP library raises by itself
StatusErrorMsg(status) == <<"status error ", ToString(status), " for url">>
LibTimeoutMsgs == {<<>>, <<"timed out">>}
LibErrorMsgs == {<<"All connection attempts failed">>}

\* `"Timeout" in error_msg`
HasTimeoutWord(msg) == \E i \in 1..Len(msg) : msg[i] = TimeoutWord
HasVpnHint(text) == \E i \in 1..Len(text) : text[i] \in {VpnQuestion, VpnTip}

\* ------------------------------------------------------------- HTTP layer
Statuses == {200, 201, 204, 302, 401, 403, 500}
Is2xx(status) == status >= 200 /\ status <= 299

JobsPath == <<"/api/json?tree=jobs[...]">>
RootPath == <<"/api/json">>
QueuePath == <<"/queue/api/json">>
JobPath(job) == <<"/job/", job, "/api/json">>
BuildsPath(job, limit) == <<"/job/", job, "/api/json?tree=builds[...]{0,", ToString(limit), "}">>
BuildPath(job, number) == <<"/job/", job, "/", ToString(number), "/api/json">>
ConsolePath(job, number) == <<"/job/", job, "/", ToString(number), "/consoleText">>
BuildSimplePath(job) == <<"/job/", job, "/build">>
BuildParamsPath(job) == <<"/job/", job, "/buildWithParameters">>

HttpRequest(m, p, f) == [method |-> m, path |-> p, form |-> f]
HttpGet(p) == HttpRequest("GET", p, {})

\* what one HTTP round trip can end in
HttpStatus(s, jobs, text) == [kind |-> "status", status |-> s, jobs |-> jobs, text |-> text, msg |-> <<>>]
HttpFailure(k, m) == [kind |-> k, status |-> 0, jobs |-> <<>>, text |-> <<>>, msg |-> m]

Failures == {HttpFailure("connect_timeout", m) : m \in LibTimeoutMsgs}
            \cup {HttpFailure("error", m) : m \in LibErrorMsgs}

\* a 200 answer carries the body the endpoint serves
Outcomes(request) ==
    Failures \cup {HttpStatus(s, <<>>, <<>>) : s \in Statuses} \cup
    IF request.path = JobsPath
      THEN {HttpStatus(200, jobs, <<>>) : jobs \in JobLists}
      ELSE IF request.path[Len(request.path)] = "/consoleText"
        THEN {HttpStatus(200, <<>>, t) : t \in ConsoleTexts}
        ELSE {}

\* ------------------------------------- results of a JenkinsManager method
Return(jobs, text, ok) == [tag |-> "return", msg |-> <<>>, jobs |-> jobs, text |-> text, ok |-> ok]
Raise(msg) == [tag |-> "raise", msg |-> msg, jobs |-> <<>>, text |-> <<>>, ok |-> FALSE]

\* variant: raise_for_status() is not called
RaiseForStatus_skipped(o, value) == IF o.kind # "status" THEN Raise(o.msg) ELSE value

\* the awaited request followed by response.raise_for_status()
RaiseForStatus(o, value) ==
    IF o.kind # "status" THEN Raise(o.msg)
    ELSE IF ~Is2xx(o.status) THEN Raise(StatusErrorMsg(o.status))
    ELSE value

test_connection(o) ==
    IF o.kind = "connect_timeout" THEN Raise(ConnectTimeoutMsg)
    ELSE IF o.kind # "status" THEN Raise(o.msg)
    ELSE IF Is2xx(o.status) THEN Return(<<>>, <<>>, TRUE)
    ELSE IF o.status = 401 THEN Raise(AuthMsg)
    ELSE IF o.status = 403 THEN Raise(PermissionMsg)
    ELSE Raise(HttpMsg(o.status))

get_jobs(o) == RaiseForStatus(o, Return(o.jobs, <<>>, TRUE))

get_job_info(o) == RaiseForStatus(o, Return(<<>>, <<>>, TRUE))

get_job_builds(o) == RaiseForStatus(o, Return(<<>>, <<>>, TRUE))

get_build_info(o) == RaiseForStatus(o, Return(<<>>, <<>>, TRUE))

get_queue_info(o) == RaiseForStatus(o, Return(<<>>, <<>>, TRUE))

\* str.split('\n')
RECURSIVE SplitFrom(_, _, _)
SplitFrom(text, i, cur) ==
    IF i > Len(text) THEN <<cur>>
    ELSE IF text[i] = "\n" THEN <<cur>> \o SplitFrom(text, i + 1, <<>>)
    ELSE SplitFrom(text, i + 1, Append(cur, text[i]))
Split(text) == SplitFrom(text, 1, <<>>)

\* '\n'.join(list)
RECURSIVE Join(_)
Join(list) ==
    IF list = <<>> THEN <<>>
    ELSE IF Len(list) = 1 THEN list[1]
    ELSE list[1] \o <<"\n">> \o Join(Tail(list))

\* list[-lines:]  (Python slice with the start index -lines)
Start(n, lines) ==
    IF lines > 0 THEN (IF n - lines > 0 THEN n - lines ELSE 0)
    ELSE Min(0 - lines, n)
LastLines(list, lines) == SubSeq(list, Start(Len(list), lines) + 1, Len(list))

get_build_console(o, lines) ==
    RaiseForStatus(o, Return(<<>>, Join(LastLines(Split(o.text), lines)), TRUE))

\* `if parameters:` chooses the endpoint; data=parameters is the form body
trigger_build_request(job, parameters) ==
    IF parameters # {}
      THEN HttpRequest("POST", BuildParamsPath(job), parameters)
      ELSE HttpRequest("POST", BuildSimplePath(job), {})

\* variant: only 200 counts as success
SuccessCodes_only_200 == {200}
SuccessCodes == {200, 201}
trigger_build(o) ==
    IF o.kind # "status" THEN Raise(o.msg)
    ELSE Return(<<>>, <<>>, o.status \in SuccessCodes)

\* ------------------------------------------------- requests and responses
ToolNames == {"test_connection", "get_jobs", "get_job_info", "get_job_builds",
              "get_build_console", "trigger_build", "get_failed_jobs"}
UnknownTools == {"get_queue", "jenkins://jobs"}
ResourceUris == {"jenkins://jobs", "jenkins://queue", "jenkins://failed-jobs"}
UnknownUris == {"jenkins://builds", "get_jobs"}

\* the arguments dict: the keys present and the value under each key
Absent(v) == [has |-> FALSE, v |-> v]
Given(v) == [has |-> TRUE, v |-> v]
Arguments(jn, bn, ln, f, p, lim) ==
    [keys |-> {k \in {"job_name", "build_number", "lines", "filter", "parameters", "limit"} :
                  \/ k = "job_name" /\ jn.has
                  \/ k = "build_number" /\ bn.has
                  \/ k = "lines" /\ ln.has
                  \/ k = "filter" /\ f.has
                  \/ k = "parameters" /\ p.has
                  \/ k = "limit" /\ lim.has},
     job_name |-> jn.v, build_number |-> bn.v, lines |-> ln.v,
     filter |-> f.v, parameters |-> p.v, limit |-> lim.v]
NoArguments == Arguments(Absent(""), Absent(0), Absent(0), Absent(<<>>), Absent({}), Absent(0))

JobNameArgs == {Absent(""), Given(""), Given("jobA")}
BuildNumberArgs == {Absent(0), Given(0), Given(1)}
LinesArgs == {Absent(0)} \cup {Given(k) : k \in 0..MaxLines}
FilterArgs == {Absent(<<>>)} \cup {Given(f) : f \in SeqsUpTo(Alphabet, MaxFilterLen)}
ParametersArgs == {Absent({}), Given({}), Given({<<"BRANCH", "main">>})}
LimitArgs == {Absent(0), Given(5)}

ArgumentsOf(name) ==
    CASE name = "get_jobs" ->
           {Arguments(Absent(""), Absent(0), Absent(0), f, Absent({}), Absent(0)) : f \in FilterArgs}
      [] name = "get_job_info" ->
           {Arguments(jn, Absent(0), Absent(0), Absent(<<>>), Absent({}), Absent(0)) : jn \in JobNameArgs}
      [] name = "get_job_builds" ->
           {Arguments(jn, Absent(0), Absent(0), Absent(<<>>), Absent({}), lim) :
               jn \in JobNameArgs, lim \in LimitArgs}
      [] name = "get_build_console" ->
           {Arguments(jn, bn, ln, Absent(<<>>), Absent({}), Absent(0)) :
               jn \in JobNameArgs, bn \in BuildNumberArgs, ln \in LinesArgs}
      [] name = "trigger_build" ->
           {Arguments(jn, Absent(0), Absent(0), Absent(<<>>), p, Absent(0)) :
               jn \in JobNameArgs, p \in ParametersArgs}
      [] OTHER -> {NoArguments}

\* arguments.get(key, default)
ArgGet(a, key, default) == IF key \in a.keys THEN a[key] ELSE default
\* `not arguments.get(key)` for a string and for an integer argument
NotStr(a, key) == key \notin a.keys \/ a[key] = ""
\* variant: the integer argument is never examined
NotInt_unchecked(a, key) == FALSE
NotInt(a, key) == key \notin a.keys \/ a[key] = 0

Request(entry, name, a) == [entry |-> entry, name |-> name, arguments |-> a]
NoRequest == Request("none", "", NoArguments)

\* a response: the payload text, the jobs it lists, and which path of the
\* handler produced it
Response(kind, text, jobs, outcome) == [kind |-> kind, text |-> text, jobs |-> jobs, outcome |-> outcome]
NoResponse == Response("none", <<>>, <<>>, "none")
TextContent(text, jobs, outcome) == Response("text", text, jobs, outcome)
JsonDumps(text, jobs, outcome) == Response("json", text, jobs, outcome)

\* what the body of a handler does at a step
Await(request) == [tag |-> "await", request |-> request, response |-> NoResponse, msg |-> <<>>]
Returns(response) == [tag |-> "return", request |-> HttpGet(<<>>), response |-> response, msg |-> <<>>]
Raises(msg) == [tag |-> "raise", request |-> HttpGet(<<>>), response |-> NoResponse, msg |-> msg]

NoResult == [tag |-> "none", msg |-> <<>>, jobs |-> <<>>, text |-> <<>>, ok |-> FALSE]
NoApi == [op |-> "none", lines |-> 0, outcome |-> HttpFailure("none", <<>>), result |-> Raise(<<>>)]
ApiCall(op, lines, o, result) == [op |-> op, lines |-> lines, outcome |-> o, result |-> result]

\* ------------------------------------------------------------- call_tool
RequireJobName == TextContent(<<Marker, "Error: ", "Se requiere job_name">>, <<>>, "validation")
RequireJobAndBuild ==
    TextContent(<<Marker, "Error: ", "Se requieren job_name y build_number">>, <<>>, "validation")
\* variant: the tool name is left out of the text
UnknownTool_unnamed(name) == TextContent(<<Marker, "Herramienta desconocida">>, <<>>, "unknown")
UnknownTool(name) == TextContent(<<Marker, "Herramienta desconocida: ", name>>, <<>>, "unknown")

\* variant: only the colour is examined
FailedInTool_color_only(job) == job.color \in {"red", "red_anime"}

\* the failed-job test as written in call_tool
FailedInTool(job) ==
    \/ job.color \in {"red", "red_anime"}
    \/ (Truthy(job.last_build) /\ LastResult(job.last_build) = "FAILURE")

\* variant: the job name is compared without lower()
MatchesFilter_case_sensitive(filter_name, job) == IsSubstring(filter_name, job.name)

\* the get_jobs name filter
MatchesFilter(filter_name, job) == IsSubstring(filter_name, Lower(job.name))
FilterJobs(filter_name, jobs) ==
    LET Keep(job) == MatchesFilter(filter_name, job)
    IN  IF filter_name # <<>> THEN SelectSeq(jobs, Keep) ELSE jobs

\* the body of call_tool up to its first await
call_tool_begin(name, a) ==
    IF name = "test_connection" THEN Await(HttpGet(RootPath))
    ELSE IF name = "get_jobs" THEN Await(HttpGet(JobsPath))
    ELSE IF name = "get_job_info" THEN
        IF NotStr(a, "job_name") THEN Returns(RequireJobName)
        ELSE Await(HttpGet(JobPath(a.job_name)))
    ELSE IF name = "get_job_builds" THEN
        IF NotStr(a, "job_name") THEN Returns(RequireJobName)
        ELSE Await(HttpGet(BuildsPath(a.job_name, ArgGet(a, "limit", DefaultLimit))))
    ELSE IF name = "get_build_console" THEN
        IF NotStr(a, "job_name") \/ NotInt(a, "build_number") THEN Returns(RequireJobAndBuild)
        ELSE Await(HttpGet(ConsolePath(a.job_name, a.build_number)))
    ELSE IF name = "trigger_build" THEN
        IF NotStr(a, "job_name") THEN Returns(RequireJobName)
        ELSE Await(trigger_build_request(a.job_name, ArgGet(a, "parameters", {})))
    ELSE IF name = "get_failed_jobs" THEN Await(HttpGet(JobsPath))
    ELSE Returns(UnknownTool(name))

\* the JenkinsManager method the awaited request belongs to
call_tool_api(name, a, o) ==
    CASE name = "test_connection" -> ApiCall(name, 0, o, test_connection(o))
      [] name = "get_jobs" -> ApiCall(name, 0, o, get_jobs(o))
      [] name = "get_job_info" -> ApiCall(name, 0, o, get_job_info(o))
      [] name = "get_job_builds" -> ApiCall(name, 0, o, get_job_builds(o))
      [] name = "get_build_console" ->
           ApiCall(name, ArgGet(a, "lines", DefaultLines), o,
                   get_build_console(o, ArgGet(a, "lines", DefaultLines)))
      [] name = "trigger_build" -> ApiCall(name, 0, o, trigger_build(o))
      [] name = "get_failed_jobs" -> ApiCall("get_jobs", 0, o, get_jobs(o))

\* the body of call_tool from the awaited result r to its return
call_tool_resume(name, a, r) ==
    IF r.tag = "raise" THEN Raises(r.msg)
    ELSE IF name = "test_connection" THEN
        Returns(TextContent(<<"Conexion exitosa con Jenkins">>, <<>>, "ok"))
    ELSE IF name = "get_jobs" THEN
        (LET jobs == FilterJobs(Lower(ArgGet(a, "filter", <<>>)), r.jobs)
         IN  IF jobs = <<>> THEN Returns(TextContent(<<"No se encontraron jobs">>, <<>>, "ok"))
             ELSE Returns(TextContent(<<"**Jobs de Jenkins:** (", ToString(Len(jobs)), " total)">>,
                                      jobs, "ok")))
    ELSE IF name = "get_job_info" THEN
        Returns(TextContent(<<"**Job: ", a.job_name, "**">>, <<>>, "ok"))
    ELSE IF name = "get_job_builds" THEN
        \* (the build list itself is not carried: either text is a normal result)
        Returns(TextContent(<<"Builds del job '", a.job_name, "'">>, <<>>, "ok"))
    ELSE IF name = "get_build_console" THEN
        Returns(TextContent(<<"**Console logs - ", a.job_name, " #", ToString(a.build_number),
                              "** (ultimas ", ToString(ArgGet(a, "lines", DefaultLines)),
                              " lineas)", "[code]\n">> \o r.text \o <<"\n[/code]">>, <<>>, "ok"))
    ELSE IF name = "trigger_build" THEN
        (IF r.ok
           THEN Returns(TextContent(<<"Build ejecutado exitosamente para '", a.job_name, "'">>,
                                    <<>>, "ok"))
           ELSE Returns(TextContent(<<Marker, "Error al ejecutar build para '", a.job_name, "'">>,
                                    <<>>, "trigger_failed")))
    ELSE
        LET failed_jobs == SelectSeq(r.jobs, FailedInTool)
        IN  IF failed_jobs = <<>>
              THEN Returns(TextContent(<<"No hay jobs fallidos actualmente">>, <<>>, "ok"))
              ELSE Returns(TextContent(<<Marker, "**Jobs Fallidos:** (",
                                         ToString(Len(failed_jobs)), " jobs)">>, failed_jobs, "ok"))

\* variant: no except clause
call_tool_except_missing(step) == step

\* variant: the message is returned without the marker
call_tool_except_bare(step) ==
    IF step.tag = "raise" THEN Returns(TextContent(step.msg, <<>>, "raised")) ELSE step

\* `except Exception as e:` of call_tool
call_tool_except(step) ==
    IF step.tag = "raise"
      THEN Returns(TextContent(<<Marker, "Error: ">> \o step.msg
                                 \o (IF HasTimeoutWord(step.msg) THEN <<VpnTip>> ELSE <<>>),
                               <<>>, "raised"))
      ELSE step

\* --------------------------------------------------------- read_resource
FailedInResource(job) ==
    \/ job.color \in {"red", "red_anime"}
    \/ (Truthy(job.last_build) /\ LastResult(job.last_build) = "FAILURE")

read_resource_begin(uri) ==
    IF uri = "jenkins://jobs" THEN Await(HttpGet(JobsPath))
    ELSE IF uri = "jenkins://queue" THEN Await(HttpGet(QueuePath))
    ELSE IF uri = "jenkins://failed-jobs" THEN Await(HttpGet(JobsPath))
    ELSE Raises(<<"Recurso no encontrado: ", uri>>)

read_resource_api(uri, o) ==
    IF uri = "jenkins://queue" THEN ApiCall("get_queue_info", 0, o, get_queue_info(o))
    ELSE ApiCall("get_jobs", 0, o, get_jobs(o))

read_resource_resume(uri, r) ==
    IF r.tag = "raise" THEN Raises(r.msg)
    ELSE IF uri = "jenkins://jobs" THEN Returns(JsonDumps(<<"[", "]">>, r.jobs, "ok"))
    ELSE IF uri = "jenkins://queue" THEN Returns(JsonDumps(<<"[", "]">>, <<>>, "ok"))
    ELSE Returns(JsonDumps(<<"[", "]">>, SelectSeq(r.jobs, FailedInResource), "ok"))

\* `except Exception as e:` of read_resource
read_resource_except(step) ==
    IF step.tag = "raise"
      THEN Returns(JsonDumps(<<"{", "\"error\": ">> \o step.msg \o <<"}">>, <<>>, "raised"))
      ELSE step

\* ------------------------------------------------------------------ state
VARIABLES
    phase,      \* "init", "startup" (main awaits test_connection), "serving", "exited"
    exit_code,  \* the value main returned, -1 while it runs
    pc,         \* "idle", "awaiting" while a handler is suspended on its HTTP call,
                \* "returned" while the protocol loop holds the handler's result
    request,    \* the request the dispatcher was last given
    in_flight,  \* the HTTP requests sent and not yet answered
    sent,       \* the HTTP requests the current invocation has issued
    api,        \* the JenkinsManager call the current invocation made
    response,   \* the response handed back to the protocol loop
    fault,      \* TRUE once an error has left a handler
    startup_result  \* what main's own test_connection ended in

vars == <<phase, exit_code, pc, request, in_flight, sent, api, response, fault, startup_result>>

Init ==
    /\ phase = "init"
    /\ exit_code = -1
    /\ pc = "idle"
    /\ request = NoRequest
    /\ in_flight = <<>>
    /\ sent = <<>>
    /\ api = NoApi
    /\ response = NoResponse
    /\ fault = FALSE
    /\ startup_result = NoResult

\* main: `await jenkins_manager.test_connection()` is issued
MainStart ==
    /\ phase = "init"
    /\ phase' = "startup"
    /\ in_flight' = <<HttpGet(RootPath)>>
    /\ UNCHANGED <<exit_code, pc, request, sent, api, response, fault, startup_result>>

\* variant: a failed startup test is only reported and the loop is entered
MainConnected_keeps_going ==
    /\ phase = "startup"
    /\ \E o \in Outcomes(in_flight[1]) :
        /\ in_flight' = <<>>
        /\ startup_result' = test_connection(o)
        /\ phase' = "serving"
        /\ exit_code' = exit_code
    /\ UNCHANGED <<pc, request, sent, api, response, fault>>

\* main: the startup test_connection completes; an error ends main with 1
MainConnected ==
    /\ phase = "startup"
    /\ \E o \in Outcomes(in_flight[1]) :
        /\ in_flight' = <<>>
        /\ startup_result' = test_connection(o)
        /\ IF test_connection(o).tag = "return"
             THEN phase' = "serving" /\ exit_code' = exit_code
             ELSE phase' = "exited" /\ exit_code' = 1
    /\ UNCHANGED <<pc, request, sent, api, response, fault>>

\* main: server.run returns (the client closed the streams)
MainReturn ==
    /\ phase = "serving"
    /\ pc = "idle"
    /\ phase' = "exited"
    /\ exit_code' = 0
    /\ UNCHANGED <<pc, request, in_flight, sent, api, response, fault, startup_result>>

\* variant: the answered HTTP call is left outstanding when the handler goes on
Finish_leaves_call(step) ==
    /\ pc' = IF step.tag = "await" THEN "awaiting" ELSE "returned"
    /\ in_flight' = IF step.tag = "await" THEN Append(in_flight, step.request) ELSE in_flight
    /\ sent' = IF step.tag = "await" THEN Append(sent, step.request) ELSE sent
    /\ response' = step.response
    /\ fault' = (fault \/ step.tag = "raise")

\* a handler reaches an await, returns, or lets an error out
Finish(step) ==
    /\ pc' = IF step.tag = "await" THEN "awaiting" ELSE "returned"
    /\ in_flight' = IF step.tag = "await" THEN <<step.request>> ELSE <<>>
    /\ sent' = IF step.tag = "await" THEN Append(sent, step.request) ELSE sent
    /\ response' = step.response
    /\ fault' = (fault \/ step.tag = "raise")

\* call_tool(name, arguments) runs until its await or its return
CallTool ==
    /\ phase = "serving"
    /\ pc = "idle"
    /\ \E name \in ToolNames \cup UnknownTools :
        \E a \in ArgumentsOf(name) :
           /\ request' = Request("call_tool", name, a)
           /\ Finish(call_tool_except(call_tool_begin(name, a)))
    /\ api' = NoApi
    /\ UNCHANGED <<phase, exit_code, startup_result>>

\* call_tool resumes with the outcome of its HTTP call and returns
CallToolResume ==
    /\ pc = "awaiting"
    /\ request.entry = "call_tool"
    /\ \E o \in Outcomes(in_flight[1]) :
        LET call == call_tool_api(request.name, request.arguments, o)
            step == call_tool_except(call_tool_resume(request.name, request.arguments, call.result))
        IN  /\ api' = call
            /\ Finish(step)
    /\ UNCHANGED <<phase, exit_code, request, startup_result>>

\* read_resource(uri) runs until its await or its return
ReadResource ==
    /\ phase = "serving"
    /\ pc = "idle"
    /\ \E uri \in ResourceUris \cup UnknownUris :
           /\ request' = Request("read_resource", uri, NoArguments)
           /\ Finish(read_resource_except(read_resource_begin(uri)))
    /\ api' = NoApi
    /\ UNCHANGED <<phase, exit_code, startup_result>>

\* read_resource resumes with the outcome of its HTTP call and returns
ReadResourceResume ==
    /\ pc = "awaiting"
    /\ request.entry = "read_resource"
    /\ \E o \in Outcomes(in_flight[1]) :
        LET call == read_resource_api(request.name, o)
            step == read_resource_except(read_resource_resume(request.name, call.result))
        IN  /\ api' = call
            /\ Finish(step)
    /\ UNCHANGED <<phase, exit_code, request, startup_result>>

\* server.run writes the handler's result to the client and waits for the
\* next request; nothing of the finished invocation is kept
LoopSend ==
    /\ pc = "returned"
    /\ pc' = "idle"
    /\ request' = NoRequest
    /\ sent' = <<>>
    /\ api' = NoApi
    /\ response' = NoResponse
    /\ UNCHANGED <<phase, exit_code, in_flight, fault, startup_result>>

Next ==
    \/ MainStart
    \/ MainConnected
    \/ MainReturn
    \/ CallTool
    \/ CallToolResume
    \/ ReadResource
    \/ ReadResourceResume
    \/ LoopSend

Spec == Init /\ [][Next]_vars

\* --------------------------------------------- the API client on its own
ApiOperations == {"test_connection", "get_jobs", "get_job_info", "get_job_builds",
                  "get_build_info", "get_build_console", "trigger_build", "get_queue_info"}

\* the request each JenkinsManager method sends
ApiRequest(op, parameters) ==
    CASE op = "test_connection" -> HttpGet(RootPath)
      [] op = "get_jobs" -> HttpGet(JobsPath)
      [] op = "get_job_info" -> HttpGet(JobPath("jobA"))
      [] op = "get_job_builds" -> HttpGet(BuildsPath("jobA", DefaultLimit))
      [] op = "get_build_info" -> HttpGet(BuildPath("jobA", 1))
      [] op = "get_build_console" -> HttpGet(ConsolePath("jobA", 1))
      [] op = "trigger_build" -> trigger_build_request("jobA", parameters)
      [] op = "get_queue_info" -> HttpGet(QueuePath)

\* the result of each JenkinsManager method for the outcome o of its request
ApiResult(op, lines, o) ==
    CASE op = "test_connection" -> test_connection(o)
      [] op = "get_jobs" -> get_jobs(o)
      [] op = "get_job_info" -> get_job_info(o)
      [] op = "get_job_builds" -> get_job_builds(o)
      [] op = "get_build_info" -> get_build_info(o)
      [] op = "get_build_console" -> get_build_console(o, lines)
      [] op = "trigger_build" -> trigger_build(o)
      [] op = "get_queue_info" -> get_queue_info(o)

\* a JenkinsManager method is called on the freshly constructed client and
\* runs to its end
ClientCall ==
    /\ api = NoApi
    /\ \E op \in ApiOperations :
        \E lines \in IF op = "get_build_console" THEN (0..MaxLines) \cup {DefaultLines} ELSE {0} :
          \E parameters \in IF op = "trigger_build" THEN {{}, {<<"BRANCH", "main">>}} ELSE {{}} :
            LET req == ApiRequest(op, parameters)
            IN  \E o \in Outcomes(req) :
                   /\ sent' = <<req>>
                   /\ api' = ApiCall(op, lines, o, ApiResult(op, lines, o))
    /\ UNCHANGED <<phase, exit_code, pc, request, in_flight, response, fault, startup_result>>

NextApi == ClientCall

SpecApi == Init /\ [][NextApi]_vars

\* ================================================================ claims
Args == request.arguments
Responded == pc = "returned"
IsFailure(r) == r.outcome \in {"validation", "unknown", "raised", "trigger_failed"}

\* C1: whatever the request and whatever the HTTP call ends in, call_tool
\* hands back a text content and read_resource a string, and no error leaves
\* either handler.
C1_NoErrorEscapes ==
    /\ ~fault
    /\ Responded =>
         /\ response.text # <<>>
         /\ response.kind = (IF request.entry = "call_tool" THEN "text" ELSE "json")

C1_Witness ==
    /\ Responded
    /\ request.entry = "call_tool"
    /\ api.outcome.kind = "error"
    /\ response.outcome = "raised"

\* C2: a call_tool invocation that lacks a required argument sends no HTTP
\* request, calls no JenkinsManager method and returns the validation text.
RequiredAbsent ==
    /\ request.entry = "call_tool"
    /\ \/ /\ request.name \in {"get_job_info", "get_job_builds", "trigger_build"}
          /\ "job_name" \notin Args.keys
       \/ /\ request.name = "get_build_console"
          /\ {"job_name", "build_number"} \ Args.keys # {}

C2_MissingArgumentSendsNothing ==
    RequiredAbsent =>
        /\ pc = "returned"
        /\ sent = <<>>
        /\ in_flight = <<>>
        /\ api = NoApi
        /\ response.kind = "text"
        /\ response.outcome = "validation"
        /\ response.text[1] = Marker
        /\ response.text[3] \in {"Se requiere job_name", "Se requieren job_name y build_number"}

C2_Witness ==
    /\ request.name = "get_build_console"
    /\ Args.keys = {"job_name"}
    /\ Args.job_name = "jobA"
    /\ response.outcome = "validation"

\* C3: the failed-jobs resource and the get_failed_jobs tool both select, from
\* the job list the server returned, exactly the jobs whose colour is red or
\* red_anime or whose last build is present with result FAILURE.
FailedRule(job) ==
    \/ job.color = "red"
    \/ job.color = "red_anime"
    \/ (job.last_build.present /\ job.last_build.result = "FAILURE")

FailedView ==
    \/ request.entry = "read_resource" /\ request.name = "jenkins://failed-jobs"
    \/ request.entry = "call_tool" /\ request.name = "get_failed_jobs"

C3_FailedJobsRule ==
    (FailedView /\ Responded /\ api.result.tag = "return") =>
        /\ response.jobs = SelectSeq(api.result.jobs, FailedRule)
        /\ SelectSeq(api.result.jobs, FailedInResource) = SelectSeq(api.result.jobs, FailedInTool)

C3_Witness ==
    /\ request.name = "get_failed_jobs"
    /\ Responded
    /\ Len(api.result.jobs) = 2
    /\ Len(response.jobs) = 1
    /\ response.jobs[1].color = "blue"
    /\ response.jobs[1].last_build.result = "FAILURE"

\* C4: when the HTTP call of a tool ends in a connect timeout, the response
\* text carries the VPN hint and the dispatcher is ready for the next request.
C4_ConnectTimeoutHasVpnHint ==
    (Responded /\ request.entry = "call_tool" /\ api.outcome.kind = "connect_timeout") =>
        /\ HasVpnHint(response.text)
        /\ phase = "serving"
        /\ in_flight = <<>>
        /\ ~fault

\* C5: every failure at call_tool and at read_resource yields a payload that
\* begins with the failure marker.
C5_EveryFailureBeginsWithMarker ==
    (Responded /\ IsFailure(response)) =>
        (response.text # <<>> /\ response.text[1] = Marker)

\* C5 as amended: every failure at call_tool yields a text that begins with
\* the failure marker; every failure at read_resource yields the JSON object
\* {"error": message}, which does not begin with the marker.
C5_FailureMarkerPerEntryPoint ==
    (Responded /\ IsFailure(response)) =>
        IF request.entry = "call_tool"
          THEN response.kind = "text" /\ response.text[1] = Marker
          ELSE /\ response.kind = "json"
               /\ response.text[1] = "{"
               /\ response.text[2] = "\"error\": "
               /\ response.text[Len(response.text)] = "}"

C5_Witness ==
    /\ Responded
    /\ request.entry = "call_tool"
    /\ request.name = "get_job_info"
    /\ api.outcome.kind = "status"
    /\ api.outcome.status = 500
    /\ response.outcome = "raised"

\* C6: every JenkinsManager method ends in an error whenever the server
\* answers with a status outside 200..299.
AnsweredNon2xx ==
    /\ api.op # "none"
    /\ api.outcome.kind = "status"
    /\ (api.outcome.status < 200 \/ api.outcome.status > 299)

C6_Non2xxAlwaysRaises == AnsweredNon2xx => api.result.tag = "raise"

\* C6 as amended: every JenkinsManager method except trigger_build ends in
\* an error whenever the server answers with a status outside 200..299;
\* trigger_build returns false for such a status.
C6_Non2xxRaisesExceptTrigger ==
    AnsweredNon2xx =>
        IF api.op = "trigger_build"
          THEN api.result.tag = "return" /\ ~api.result.ok
          ELSE api.result.tag = "raise"

C6_Witness ==
    /\ api.op = "get_build_info"
    /\ api.outcome.status = 302
    /\ api.result.tag = "raise"

\* C7: the trigger_build tool sends exactly one POST, to buildWithParameters
\* with the parameters as form data when parameters is non-empty and to build
\* otherwise; trigger_build returns true iff the status is 200 or 201, and
\* the tool reports success exactly when it returned true.
TriggerCalled ==
    /\ request.entry = "call_tool"
    /\ request.name = "trigger_build"
    /\ "job_name" \in Args.keys
    /\ Args.job_name # ""

GivenParameters == IF "parameters" \in Args.keys THEN Args.parameters ELSE {}

C7_TriggerBuild ==
    TriggerCalled =>
        /\ Len(sent) = 1
        /\ sent[1].method = "POST"
        /\ IF GivenParameters # {}
             THEN /\ sent[1].path = <<"/job/", Args.job_name, "/buildWithParameters">>
                  /\ sent[1].form = GivenParameters
             ELSE /\ sent[1].path = <<"/job/", Args.job_name, "/build">>
                  /\ sent[1].form = {}
        /\ (pc = "returned" /\ api.outcome.kind = "status") =>
             /\ api.result.tag = "return"
             /\ api.result.ok <=> (api.outcome.status = 200 \/ api.outcome.status = 201)
             /\ (response.outcome = "ok") <=> api.result.ok
             /\ (response.text[1] = Marker) <=> ~api.result.ok

C7_Witness ==
    /\ TriggerCalled
    /\ pc = "returned"
    /\ GivenParameters # {}
    /\ api.outcome.status = 201
    /\ response.outcome = "ok"

\* C8: for a console log of n lines and a non-negative line count k passed by
\* the get_build_console tool, get_build_console returns the last min(k, n)
\* lines joined by newlines in their original order.
C8_ConsoleTail ==
    (pc = "returned" /\ api.op = "get_build_console" /\ api.result.tag = "return") =>
        LET log == Split(api.outcome.text)
            n == Len(log)
            m == IF api.lines < n THEN api.lines ELSE n
        IN  api.result.text = Join(SubSeq(log, n - m + 1, n))

\* C9: the get_jobs tool lists exactly the jobs whose name contains the filter
\* as a substring when letter case is ignored, and every job when the filter
\* is empty or absent.
SameLetter(c, d) == c = d \/ {c, d} = {"a", "A"}
ContainsIgnoringCase(name, f) ==
    \E off \in 0..(Len(name) - Len(f)) :
        \A j \in 1..Len(f) : SameLetter(name[off + j], f[j])
GivenFilter == IF "filter" \in Args.keys THEN Args.filter ELSE <<>>
WantedByFilter(job) == ContainsIgnoringCase(job.name, GivenFilter)

C9_JobsFilter ==
    (pc = "returned" /\ request.entry = "call_tool" /\ request.name = "get_jobs"
        /\ api.result.tag = "return") =>
        /\ response.jobs = SelectSeq(api.result.jobs, WantedByFilter)
        /\ GivenFilter = <<>> => response.jobs = api.outcome.jobs

C9_Witness ==
    /\ pc = "returned"
    /\ request.name = "get_jobs"
    /\ GivenFilter = <<"A">>
    /\ Len(api.result.jobs) = 2
    /\ Len(response.jobs) = 1
    /\ response.jobs[1].name = <<"b", "a">>

\* C10: an unknown resource URI and an unknown tool name each get a
\* not-found text that names the identifier, with no error let out and no
\* HTTP request sent.
UnknownIdentifier ==
    \/ /\ request.entry = "read_resource"
       /\ request.name \notin {"jenkins://jobs", "jenkins://queue", "jenkins://failed-jobs"}
    \/ /\ request.entry = "call_tool"
       /\ request.name \notin {"test_connection", "get_jobs", "get_job_info", "get_job_builds",
                               "get_build_console", "trigger_build", "get_failed_jobs"}

C10_UnknownIdentifier ==
    UnknownIdentifier =>
        /\ pc = "returned"
        /\ ~fault
        /\ sent = <<>>
        /\ in_flight = <<>>
        /\ api = NoApi
        /\ \E i \in 1..Len(response.text) :
              /\ response.text[i] = request.name
              /\ i > 1
              /\ response.text[i - 1] =
                   (IF request.entry = "call_tool" THEN "Herramienta desconocida: "
                                                   ELSE "Recurso no encontrado: ")

C10_Witness ==
    /\ pc = "returned"
    /\ request.entry = "read_resource"
    /\ request.name = "jenkins://builds"
    /\ response.kind = "json"

\* C11: one invocation of call_tool or read_resource sends at most one HTTP
\* request, at most one HTTP call is in flight at any time, and none is left
\* outstanding once the handler has returned.
C11_OneCallPerInvocation ==
    /\ Len(sent) <= 1
    /\ Len(in_flight) <= 1
    /\ pc = "awaiting" => (Len(sent) = 1 /\ in_flight = sent)
    /\ (pc # "awaiting" /\ phase # "startup") => in_flight = <<>>

C11_Witness ==
    /\ pc = "returned"
    /\ request.entry = "call_tool"
    /\ request.name = "get_failed_jobs"
    /\ api.result.tag = "return"
    /\ Len(response.jobs) = 2
    /\ Len(sent) = 1
    /\ in_flight = <<>>

\* C12: a request is taken only after main's own test_connection succeeded;
\* when that test fails main returns 1 without having served a request; a
\* handler whose HTTP call fails answers that request and the process goes
\* on serving.
RequestTaken == pc = "idle" /\ pc' # "idle"

C12_Step ==
    /\ RequestTaken => (phase = "serving" /\ startup_result.tag = "return")
    /\ (phase = "startup" /\ startup_result'.tag = "raise") =>
          /\ phase' = "exited"
          /\ exit_code' = 1
          /\ pc' = "idle"
          /\ request' = NoRequest
          /\ response' = NoResponse
    /\ (phase = "startup" /\ phase' = "serving") => startup_result'.tag = "return"
    /\ pc = "awaiting" =>
          /\ phase' = "serving"
          /\ exit_code' = -1
          /\ pc' = "returned"
          /\ api'.outcome.kind # "status" =>
                (response'.outcome = "raised" /\ response'.text # <<>> /\ ~fault')

C12_StartupFatalCallRecoverable ==
    /\ [](startup_result.tag = "raise" => (phase = "exited" /\ exit_code = 1))
    /\ [][C12_Step]_vars

C12_Witness ==
    /\ phase = "exited"
    /\ exit_code = 1
    /\ startup_result.msg = ConnectTimeoutMsg
    /\ request = NoRequest
    /\ response = NoResponse

\* C13: a get_build_console call that supplies a non-empty job_name and an
\* integer build_number >= 0 (0 included) is passed on to get_build_console
\* with those values and is not answered with the validation text.
ConsoleArgumentsSupplied ==
    /\ request.entry = "call_tool"
    /\ request.name = "get_build_console"
    /\ {"job_name", "build_number"} \subseteq Args.keys
    /\ Args.job_name # ""
    /\ Args.build_number >= 0

C13_ConsoleCallForwarded ==
    ConsoleArgumentsSupplied =>
        /\ response.outcome # "validation"
        /\ sent = <<[method |-> "GET",
                     path |-> <<"/job/", Args.job_name, "/", ToString(Args.build_number),
                                "/consoleText">>,
                     form |-> {}]>>
        /\ pc = "returned" => api.op = "get_build_console"

====
